---- MODULE Spec2Model ----
(***************************************************************************)
(* Model of the fluent_validator package: the FluentValidator builder      *)
(* (And / Or), its Validate reduction, and the rules a chain is built of.  *)
(*                                                                         *)
(* One Validate call is modelled at the granularity of the loop of         *)
(* FluentValidator.Validate: one action per loop iteration, so that the    *)
(* accumulator and the message list are observable at every step boundary. *)
(* Step indices are 0-based as in the Go source; steps[i + 1] is step i.   *)
(***************************************************************************)
EXTENDS Integers, Sequences, FiniteSets, TLC

\* ---------------------------------------------------------------- bounds
MaxSteps == 3        \* longest chain the builder is driven to
MaxCalls == 2        \* Validate calls per behaviour
MaxNow   == 1        \* last instant of the wall clock
MaxStrLen == 3       \* longest string handed to LuhnValid
MaxInt   == 6        \* IntMultipleOf is handed integers in -MaxInt..MaxInt

\* ------------------------------------------------------------ data model
opAnd == 0
opOr  == 1

Success == [IsValid |-> TRUE, Message |-> <<>>]

Fail(msg) == [IsValid |-> FALSE, Message |-> msg]

\* the zero value of the struct (what a caller holds before any call returned)
ValidationResult == [IsValid |-> FALSE, Message |-> <<>>]

\* InPast(t) for the captured instant t = 0, called at wall-clock time t_now
InPast(t_now) == IF ~(0 < t_now) THEN Fail(<<"must be in the past">>) ELSE Success

\* The rules a caller attaches.  "Nil" is the nil Validator interface value,
\* which And / Or accept; the others are ValidatorFunc closures.
Validators == {"Success", "PassMsg", "FailNone", "FailA", "FailBC", "InPast", "Nil"}

\* rules whose outcome is a function of nothing but the rule
PureRules == {"Success", "PassMsg", "FailNone", "FailA", "FailBC"}

\* ValidatorFunc.Validate: the result of invoking rule v at time t_now
ValidatorFunc(v, t_now) ==
    CASE v = "Success"  -> Success
      [] v = "PassMsg"  -> [IsValid |-> TRUE, Message |-> <<"w">>]
      [] v = "FailNone" -> Fail(<<>>)
      [] v = "FailA"    -> Fail(<<"a">>)
      [] v = "FailBC"   -> Fail(<<"b", "c">>)
      [] v = "InPast"   -> InPast(t_now)

chainedStep(v, o) == [validator |-> v, op |-> o]

\* ----------------------------------------------------------------- state
VARIABLES
    steps,      \* FluentValidator.steps
    pc,         \* "ready" | "loop" | "returned" | "panicked"
    i,          \* loop index of Validate (0-based, next step to process)
    accValid,   \* local accValid of Validate
    messages,   \* local messages of Validate
    res,        \* the ValidationResult the last finished call returned
    invoked,    \* rule invocations of the current call, in order:
                \*   <<[idx, IsValid, Message], ...>>
    now,        \* wall clock read by time-dependent rules
    calls,      \* Validate calls that were started
    attached,   \* the caller's record of its And / Or calls, in call order:
                \*   <<[rule, tag], ...>>
    hist,       \* the finished Validate calls on the chain as it stands:
                \*   <<[res, invoked], ...>>
    thr,        \* concurrent callers of Validate: the frame of each thread
    arg,        \* the arguments a rule constructor was given
    out         \* what the rule built from arg returned

vars == <<steps, pc, i, accValid, messages, res, invoked, now, calls,
          attached, hist, thr, arg, out>>

\* the concurrent callers
Threads == {"t1", "t2"}

\* a thread that is not inside Validate and has not called it
IdleFrame == [pc |-> "idle", i |-> 0, accValid |-> FALSE, messages |-> <<>>,
              res |-> ValidationResult, invoked |-> <<>>, calls |-> 0]

NoArg == [fn |-> "none", s |-> <<>>, v |-> 0, m |-> 0]

NoOut == [done |-> FALSE, panic |-> FALSE, res |-> ValidationResult]

\* one finished call: what it returned and which rules it invoked
Finished(r, log) == [res |-> r, invoked |-> log]

\* ------------------------------------------- the branches of the loop body
\* mutant: the AND case lost its short-circuit
InvokesAndAlways(idx, o, acc) ==
    \/ idx = 0
    \/ idx > 0 /\ o = opAnd
    \/ idx > 0 /\ o = opOr /\ ~acc

\* mutant: the OR case lost its short-circuit
InvokesOrAlways(idx, o, acc) ==
    \/ idx = 0
    \/ idx > 0 /\ o = opAnd /\ acc
    \/ idx > 0 /\ o = opOr

\* Does the loop body invoke the rule of step idx, given the accumulator?
Invokes(idx, o, acc) ==
    \/ idx = 0
    \/ idx > 0 /\ o = opAnd /\ acc
    \/ idx > 0 /\ o = opOr /\ ~acc

\* mutant: the first step keeps the messages of a passing rule
FirstStepKeepsAll(acc, msgs, r) ==
    [accValid |-> r.IsValid,
     messages |-> IF Len(r.Message) > 0 THEN msgs \o r.Message ELSE msgs]

\* i == 0 branch: seed the accumulator
FirstStep(acc, msgs, r) ==
    [accValid |-> r.IsValid,
     messages |-> IF ~r.IsValid /\ Len(r.Message) > 0
                  THEN msgs \o r.Message ELSE msgs]

\* mutant: the AND case combines with ||
AndStepWrongOp(acc, msgs, r) ==
    [accValid |-> acc \/ r.IsValid,
     messages |-> IF ~r.IsValid /\ Len(r.Message) > 0
                  THEN msgs \o r.Message ELSE msgs]

\* mutant: the AND case forgets to collect the failure
AndStepDropsMessages(acc, msgs, r) ==
    [accValid |-> acc /\ r.IsValid,
     messages |-> msgs]

\* mutant: the AND case collects the messages of a passing rule too
AndStepKeepsAll(acc, msgs, r) ==
    [accValid |-> acc /\ r.IsValid,
     messages |-> IF Len(r.Message) > 0 THEN msgs \o r.Message ELSE msgs]

\* mutant: the AND case never writes the accumulator
AndStepKeepsAcc(acc, msgs, r) ==
    [accValid |-> acc,
     messages |-> IF ~r.IsValid /\ Len(r.Message) > 0
                  THEN msgs \o r.Message ELSE msgs]

\* case opAnd, rule invoked
AndStep(acc, msgs, r) ==
    [accValid |-> acc /\ r.IsValid,
     messages |-> IF ~r.IsValid /\ Len(r.Message) > 0
                  THEN msgs \o r.Message ELSE msgs]

\* mutant: a passing OR leaves the accumulated messages in place
OrStepKeepsMessages(acc, msgs, r) ==
    [accValid |-> acc \/ r.IsValid,
     messages |-> IF r.IsValid THEN msgs
                  ELSE IF Len(r.Message) > 0 THEN msgs \o r.Message
                  ELSE msgs]

\* mutant: a failing OR overwrites the messages instead of appending
OrStepLastOnly(acc, msgs, r) ==
    [accValid |-> acc \/ r.IsValid,
     messages |-> IF r.IsValid THEN <<>>
                  ELSE IF Len(r.Message) > 0 THEN r.Message
                  ELSE msgs]

\* mutant: the OR case combines with &&
OrStepWrongOp(acc, msgs, r) ==
    [accValid |-> acc /\ r.IsValid,
     messages |-> IF r.IsValid THEN <<>>
                  ELSE IF Len(r.Message) > 0 THEN msgs \o r.Message
                  ELSE msgs]

\* case opOr, rule invoked
OrStep(acc, msgs, r) ==
    [accValid |-> acc \/ r.IsValid,
     messages |-> IF r.IsValid THEN <<>>
                  ELSE IF Len(r.Message) > 0 THEN msgs \o r.Message
                  ELSE msgs]

\* the value Validate returns after the loop
Result(acc, msgs) ==
    IF acc THEN Success ELSE [IsValid |-> FALSE, Message |-> msgs]

Callable == pc \in {"ready", "returned"}

\* one invocation of step.validator.Validate(), recorded in the call log
LogEntry(idx, r) == [idx |-> idx, IsValid |-> r.IsValid, Message |-> r.Message]

\* ------------------------------------------------------------------ Init
\* New(): an empty chain; nothing was evaluated yet.
Init ==
    /\ steps = <<>>
    /\ pc = "ready"
    /\ i = 0
    /\ accValid = FALSE
    /\ messages = <<>>
    /\ res = ValidationResult
    /\ invoked = <<>>
    /\ now = 0
    /\ calls = 0
    /\ attached = <<>>
    /\ hist = <<>>
    /\ thr = [t \in Threads |-> IdleFrame]
    /\ arg = NoArg
    /\ out = NoOut

\* --------------------------------------------------------------- builder
\* And / Or are called between Validate calls (the builder is single-threaded).
\* The call log is the log of one Validate call: attaching a step starts a
\* new chain under test and the log is emptied.
\* mutant: And tags its step OR
AndTagsOr(v) ==
    /\ Callable
    /\ Len(steps) < MaxSteps
    /\ steps' = Append(steps, chainedStep(v, opOr))
    /\ pc' = "ready"
    /\ invoked' = <<>>
    /\ attached' = Append(attached, [rule |-> v, tag |-> "AND"])
    /\ hist' = <<>>
    /\ UNCHANGED <<i, accValid, messages, res, now, calls, thr, arg, out>>

And(v) ==
    /\ Callable
    /\ Len(steps) < MaxSteps
    /\ steps' = Append(steps, chainedStep(v, opAnd))
    /\ pc' = "ready"
    /\ invoked' = <<>>
    /\ attached' = Append(attached, [rule |-> v, tag |-> "AND"])
    /\ hist' = <<>>
    /\ UNCHANGED <<i, accValid, messages, res, now, calls, thr, arg, out>>

Or(v) ==
    /\ Callable
    /\ Len(steps) < MaxSteps
    /\ steps' = Append(steps, chainedStep(v, opOr))
    /\ pc' = "ready"
    /\ invoked' = <<>>
    /\ attached' = Append(attached, [rule |-> v, tag |-> "OR"])
    /\ hist' = <<>>
    /\ UNCHANGED <<i, accValid, messages, res, now, calls, thr, arg, out>>

\* -------------------------------------------------------------- Validate
\* mutant: no early return, the empty loop falls through with accValid false
ValidateEmptyFallsThrough ==
    /\ Callable
    /\ calls < MaxCalls
    /\ Len(steps) = 0
    /\ res' = Result(FALSE, <<>>)
    /\ invoked' = <<>>
    /\ pc' = "returned"
    /\ calls' = calls + 1
    /\ hist' = Append(hist, Finished(res', invoked'))
    /\ UNCHANGED <<steps, i, accValid, messages, now, attached, thr, arg, out>>

\* len(f.steps) == 0: return Success() at once
ValidateEmpty ==
    /\ Callable
    /\ calls < MaxCalls
    /\ Len(steps) = 0
    /\ res' = Success
    /\ invoked' = <<>>
    /\ pc' = "returned"
    /\ calls' = calls + 1
    /\ hist' = Append(hist, Finished(res', invoked'))
    /\ UNCHANGED <<steps, i, accValid, messages, now, attached, thr, arg, out>>

\* mutant: the message list outlives the call (a field instead of a local)
ValidateEnterKeepsMessages ==
    /\ Callable
    /\ calls < MaxCalls
    /\ Len(steps) > 0
    /\ accValid' = FALSE
    /\ messages' = res.Message
    /\ i' = 0
    /\ invoked' = <<>>
    /\ pc' = "loop"
    /\ calls' = calls + 1
    /\ UNCHANGED <<steps, res, now, attached, hist, thr, arg, out>>

\* non-empty chain: fresh accumulator and message list, enter the loop
ValidateEnter ==
    /\ Callable
    /\ calls < MaxCalls
    /\ Len(steps) > 0
    /\ accValid' = FALSE
    /\ messages' = <<>>
    /\ i' = 0
    /\ invoked' = <<>>
    /\ pc' = "loop"
    /\ calls' = calls + 1
    /\ UNCHANGED <<steps, res, now, attached, hist, thr, arg, out>>

\* mutant: no i == 0 special case, step 0 goes through the switch on its tag
StepFirstNoSeed ==
    /\ pc = "loop"
    /\ i = 0
    /\ i < Len(steps)
    /\ LET step == steps[i + 1] IN
       IF step.op = opAnd
       THEN /\ i' = i + 1
            /\ UNCHANGED <<steps, pc, accValid, messages, res, invoked, now, calls, attached, hist, thr, arg, out>>
       ELSE IF step.validator = "Nil"
       THEN /\ pc' = "panicked"
            /\ UNCHANGED <<steps, i, accValid, messages, res, invoked, now, calls, attached, hist, thr, arg, out>>
       ELSE LET r  == ValidatorFunc(step.validator, now)
                st == OrStep(accValid, messages, r)
            IN /\ accValid' = st.accValid
               /\ messages' = st.messages
               /\ invoked' = Append(invoked, LogEntry(i, r))
               /\ i' = i + 1
               /\ UNCHANGED <<steps, pc, res, now, calls, attached, hist, thr, arg, out>>

\* mutant: step 0 answers from the previous call on the chain, if there is one
StepFirstCached ==
    /\ pc = "loop"
    /\ i = 0
    /\ i < Len(steps)
    /\ LET step == steps[i + 1] IN
       IF step.validator = "Nil"
       THEN /\ pc' = "panicked"
            /\ UNCHANGED <<steps, i, accValid, messages, res, invoked, now, calls, attached, hist, thr, arg, out>>
       ELSE IF hist # <<>>
       THEN LET e  == hist[Len(hist)].invoked[1]
                st == FirstStep(accValid, messages,
                                [IsValid |-> e.IsValid, Message |-> e.Message])
            IN /\ accValid' = st.accValid
               /\ messages' = st.messages
               /\ i' = i + 1
               /\ UNCHANGED <<steps, pc, res, invoked, now, calls, attached, hist, thr, arg, out>>
       ELSE LET r  == ValidatorFunc(step.validator, now)
                st == FirstStep(accValid, messages, r)
            IN /\ accValid' = st.accValid
               /\ messages' = st.messages
               /\ invoked' = Append(invoked, LogEntry(i, r))
               /\ i' = i + 1
               /\ UNCHANGED <<steps, pc, res, now, calls, attached, hist, thr, arg, out>>

\* loop iteration i == 0
StepFirst ==
    /\ pc = "loop"
    /\ i = 0
    /\ i < Len(steps)
    /\ LET step == steps[i + 1] IN
       IF step.validator = "Nil"
       THEN /\ pc' = "panicked"
            /\ UNCHANGED <<steps, i, accValid, messages, res, invoked, now, calls, attached, hist, thr, arg, out>>
       ELSE LET r  == ValidatorFunc(step.validator, now)
                st == FirstStep(accValid, messages, r)
            IN /\ accValid' = st.accValid
               /\ messages' = st.messages
               /\ invoked' = Append(invoked, LogEntry(i, r))
               /\ i' = i + 1
               /\ UNCHANGED <<steps, pc, res, now, calls, attached, hist, thr, arg, out>>

\* loop iteration i >= 1, case opAnd
StepAnd ==
    /\ pc = "loop"
    /\ i > 0
    /\ i < Len(steps)
    /\ steps[i + 1].op = opAnd
    /\ LET step == steps[i + 1] IN
       IF ~Invokes(i, step.op, accValid)
       THEN /\ i' = i + 1
            /\ UNCHANGED <<steps, pc, accValid, messages, res, invoked, now, calls, attached, hist, thr, arg, out>>
       ELSE IF step.validator = "Nil"
       THEN /\ pc' = "panicked"
            /\ UNCHANGED <<steps, i, accValid, messages, res, invoked, now, calls, attached, hist, thr, arg, out>>
       ELSE LET r  == ValidatorFunc(step.validator, now)
                st == AndStep(accValid, messages, r)
            IN /\ accValid' = st.accValid
               /\ messages' = st.messages
               /\ invoked' = Append(invoked, LogEntry(i, r))
               /\ i' = i + 1
               /\ UNCHANGED <<steps, pc, res, now, calls, attached, hist, thr, arg, out>>

\* mutant: the OR case calls the rule once for IsValid and once for Message
StepOrInvokesTwice ==
    /\ pc = "loop"
    /\ i > 0
    /\ i < Len(steps)
    /\ steps[i + 1].op = opOr
    /\ LET step == steps[i + 1] IN
       IF ~Invokes(i, step.op, accValid)
       THEN /\ i' = i + 1
            /\ UNCHANGED <<steps, pc, accValid, messages, res, invoked, now, calls, attached, hist, thr, arg, out>>
       ELSE IF step.validator = "Nil"
       THEN /\ pc' = "panicked"
            /\ UNCHANGED <<steps, i, accValid, messages, res, invoked, now, calls, attached, hist, thr, arg, out>>
       ELSE LET r  == ValidatorFunc(step.validator, now)
                st == OrStep(accValid, messages, r)
            IN /\ accValid' = st.accValid
               /\ messages' = st.messages
               /\ invoked' = Append(Append(invoked, LogEntry(i, r)), LogEntry(i, r))
               /\ i' = i + 1
               /\ UNCHANGED <<steps, pc, res, now, calls, attached, hist, thr, arg, out>>

\* loop iteration i >= 1, case opOr
StepOr ==
    /\ pc = "loop"
    /\ i > 0
    /\ i < Len(steps)
    /\ steps[i + 1].op = opOr
    /\ LET step == steps[i + 1] IN
       IF ~Invokes(i, step.op, accValid)
       THEN /\ i' = i + 1
            /\ UNCHANGED <<steps, pc, accValid, messages, res, invoked, now, calls, attached, hist, thr, arg, out>>
       ELSE IF step.validator = "Nil"
       THEN /\ pc' = "panicked"
            /\ UNCHANGED <<steps, i, accValid, messages, res, invoked, now, calls, attached, hist, thr, arg, out>>
       ELSE LET r  == ValidatorFunc(step.validator, now)
                st == OrStep(accValid, messages, r)
            IN /\ accValid' = st.accValid
               /\ messages' = st.messages
               /\ invoked' = Append(invoked, LogEntry(i, r))
               /\ i' = i + 1
               /\ UNCHANGED <<steps, pc, res, now, calls, attached, hist, thr, arg, out>>

\* mutant: evaluation consumes the chain
ReturnConsumes ==
    /\ pc = "loop"
    /\ i = Len(steps)
    /\ res' = Result(accValid, messages)
    /\ pc' = "returned"
    /\ i' = 0
    /\ accValid' = FALSE
    /\ messages' = <<>>
    /\ steps' = <<>>
    /\ hist' = Append(hist, Finished(res', invoked))
    /\ UNCHANGED <<invoked, now, calls, attached, thr, arg, out>>

\* after the loop: return Success() or the accumulated failure; the frame of
\* the call is gone and its locals are back at their idle values
Return ==
    /\ pc = "loop"
    /\ i = Len(steps)
    /\ res' = Result(accValid, messages)
    /\ pc' = "returned"
    /\ i' = 0
    /\ accValid' = FALSE
    /\ messages' = <<>>
    /\ hist' = Append(hist, Finished(res', invoked))
    /\ UNCHANGED <<steps, invoked, now, calls, attached, thr, arg, out>>

\* time.Now() advances, at any moment, also in the middle of a call
Tick ==
    /\ pc # "panicked"
    /\ now < MaxNow
    /\ now' = now + 1
    /\ UNCHANGED <<steps, pc, i, accValid, messages, res, invoked, calls, attached, hist, thr, arg, out>>

Next ==
    \/ \E v \in Validators : And(v)
    \/ \E v \in Validators : Or(v)
    \/ ValidateEmpty
    \/ ValidateEnter
    \/ StepFirst
    \/ StepAnd
    \/ StepOr
    \/ Return
    \/ Tick

Spec == Init /\ [][Next]_vars

\* ------------------------------------------------- helpers over the log
RECURSIVE FailMsgsFrom(_, _)
\* the messages of the failing invocations log[p..], concatenated in order
FailMsgsFrom(log, p) ==
    IF p > Len(log) THEN <<>>
    ELSE (IF log[p].IsValid THEN <<>> ELSE log[p].Message) \o FailMsgsFrom(log, p + 1)

IsSuffix(s, t) ==
    /\ Len(s) <= Len(t)
    /\ \A k \in 1..Len(s) : s[k] = t[Len(t) - Len(s) + k]

AllOp(o) == \A k \in 1..Len(steps) : steps[k].op = o

PureChain == \A k \in 1..Len(steps) : steps[k].validator \in PureRules

\* the message list as it stands: the local one inside the loop, the
\* returned one after the call
CurMessages == IF pc = "returned" THEN res.Message ELSE messages

InCall == pc \in {"loop", "returned"} /\ Len(steps) > 0

\* C1: AND short-circuit.  An AND step at index >= 1 reached with a false
\* accumulator invokes no rule, appends no message and leaves the
\* accumulator false; and no AND step ever turns a false accumulator true.
C1_AndShortCircuit ==
    [][ (pc = "loop" /\ i >= 1 /\ i < Len(steps) /\ steps[i + 1].op = opAnd /\ ~accValid)
          => (invoked' = invoked /\ messages' = messages /\ accValid' = FALSE
              /\ pc' # "panicked") ]_vars

\* an AND step was skipped: the accumulator is false just after an AND step
\* that is missing from the log
C1_Witness ==
    /\ pc = "loop" /\ i >= 2 /\ steps[i].op = opAnd /\ ~accValid
    /\ \A k \in 1..Len(invoked) : invoked[k].idx # i - 1

\* C2: OR short-circuit.  An OR step at index >= 1 reached with a true
\* accumulator invokes no rule and leaves accumulator and messages as they
\* are; and no OR step ever turns a true accumulator false.
C2_OrShortCircuit ==
    [][ (pc = "loop" /\ i >= 1 /\ i < Len(steps) /\ steps[i + 1].op = opOr /\ accValid)
          => (invoked' = invoked /\ messages' = messages /\ accValid' = TRUE
              /\ pc' # "panicked") ]_vars

C2_Witness ==
    /\ pc = "loop" /\ i >= 2 /\ steps[i].op = opOr /\ accValid
    /\ \A k \in 1..Len(invoked) : invoked[k].idx # i - 1

Valid(v) == ValidatorFunc(v, 0).IsValid

RECURSIVE FoldLR(_, _)
\* the strict left-to-right fold of the validity values of chain[1..n], n >= 1,
\* with no short-circuit and no precedence
FoldLR(chain, n) ==
    IF n = 1 THEN Valid(chain[1].validator)
    ELSE IF chain[n].op = opAnd
         THEN FoldLR(chain, n - 1) /\ Valid(chain[n].validator)
         ELSE FoldLR(chain, n - 1) \/ Valid(chain[n].validator)

RECURSIVE RuleMsgs(_, _)
\* the messages of the pure rules chain[k..], concatenated in chain order
RuleMsgs(chain, k) ==
    IF k > Len(chain) THEN <<>>
    ELSE ValidatorFunc(chain[k].validator, 0).Message \o RuleMsgs(chain, k + 1)

\* the chain with the operator tag of step 0 exchanged
FlipFirst(chain) ==
    [chain EXCEPT ![1] = chainedStep(chain[1].validator,
                                     IF chain[1].op = opAnd THEN opOr ELSE opAnd)]

RECURSIVE Replay(_, _, _, _, _, _)
\* Validate run over chain from step j on, every rule answering what the log
\* says it answered: log[p] is the next unused invocation.  ok is TRUE iff
\* the run invokes exactly the rules of the log, in the log's order.
Replay(chain, log, j, p, acc, msgs) ==
    IF j = Len(chain)
    THEN [ok |-> p = Len(log) + 1, res |-> Result(acc, msgs)]
    ELSE IF ~Invokes(j, chain[j + 1].op, acc)
    THEN Replay(chain, log, j + 1, p, acc, msgs)
    ELSE IF p > Len(log) \/ log[p].idx # j
    THEN [ok |-> FALSE, res |-> Result(acc, msgs)]
    ELSE LET r  == [IsValid |-> log[p].IsValid, Message |-> log[p].Message]
             st == IF j = 0 THEN FirstStep(acc, msgs, r)
                   ELSE IF chain[j + 1].op = opAnd THEN AndStep(acc, msgs, r)
                   ELSE OrStep(acc, msgs, r)
         IN Replay(chain, log, j + 1, p + 1, st.accValid, st.messages)

Returned == pc = "returned" /\ Len(steps) > 0

\* C4: OR success clears everything.  Once an OR-tagged step was invoked and
\* passed, the message list (and so the result of a call that later fails)
\* holds only messages of failures that came after that invocation: it is a
\* suffix of their concatenation, whatever was accumulated before.
C4_OrSuccessClears ==
    InCall =>
      \A k \in 1..Len(invoked) :
         (invoked[k].IsValid /\ steps[invoked[k].idx + 1].op = opOr)
            => IsSuffix(CurMessages, FailMsgsFrom(invoked, k + 1))

\* a failure with messages, then a passing OR step, then a failing AND step:
\* the call fails with messages
C4_Witness ==
    /\ Returned /\ ~res.IsValid /\ Len(res.Message) > 0
    /\ \E k \in 2..Len(invoked) :
          /\ invoked[k].IsValid /\ steps[invoked[k].idx + 1].op = opOr
          /\ \E h \in 1..(k - 1) : ~invoked[h].IsValid /\ Len(invoked[h].Message) > 0
          /\ k < Len(invoked)

\* C5: no precedence.  For a chain of pure rules the returned IsValid is the
\* left-to-right fold of the rules' validity values under the steps' tags.
C5_NoPrecedence ==
    (Returned /\ PureChain) => res.IsValid = FoldLR(steps, Len(steps))

\* A OR B AND C with A passing and C failing: (A OR B) AND C fails where
\* A OR (B AND C) would pass
C5_Witness ==
    /\ Returned /\ PureChain /\ Len(steps) = 3
    /\ steps[2].op = opOr /\ steps[3].op = opAnd
    /\ Valid(steps[1].validator) /\ ~Valid(steps[3].validator)
    /\ ~res.IsValid

\* C6: the first step always runs.  In every call on a non-empty chain the
\* rule of step 0 is invoked exactly once, first; and the same chain with the
\* tag of step 0 exchanged invokes the same rules and returns the same result.
C6_FirstStepAlwaysRuns ==
    /\ ((pc = "loop" /\ i >= 1) \/ Returned) =>
          /\ Len(invoked) >= 1
          /\ invoked[1].idx = 0
          /\ \A k \in 2..Len(invoked) : invoked[k].idx # 0
    /\ Returned =>
          LET r == Replay(FlipFirst(steps), invoked, 0, 1, FALSE, <<>>)
          IN r.ok /\ r.res = res

\* a call on a chain whose step 0 is tagged OR returned, after a later step
\* was skipped and another invoked
C6_Witness ==
    /\ Returned /\ steps[1].op = opOr
    /\ Len(steps) = 3 /\ Len(invoked) = 2

\* C7: the empty chain.  Validate on a chain with no step returns
\* IsValid = TRUE with an empty Message list and invokes no rule.
C7_EmptyChain ==
    (pc = "returned" /\ Len(steps) = 0) => (res = Success /\ invoked = <<>>)

C7_Witness == pc = "returned" /\ Len(steps) = 0 /\ calls = 1

\* C8: AND-only fail-fast.  In a chain of AND steps in which a rule fails,
\* the rules are invoked in order up to the first failing one and no further,
\* and the call returns IsValid = FALSE with exactly that rule's messages.
C8_AndOnlyFailFast ==
    (/\ Returned /\ AllOp(opAnd)
     /\ \/ \E k \in 1..Len(invoked) : ~invoked[k].IsValid
        \/ PureChain /\ \E k \in 1..Len(steps) : ~Valid(steps[k].validator))
    => /\ Len(invoked) >= 1
       /\ \A k \in 1..Len(invoked) :
             invoked[k].idx = k - 1 /\ (invoked[k].IsValid <=> k < Len(invoked))
       /\ res = [IsValid |-> FALSE, Message |-> invoked[Len(invoked)].Message]

\* three AND steps: the second fails with messages, the third, failing too,
\* is never invoked
C8_Witness ==
    /\ Returned /\ AllOp(opAnd) /\ PureChain /\ Len(steps) = 3
    /\ Len(invoked) = 2 /\ Len(res.Message) > 0
    /\ ~Valid(steps[3].validator)

\* C9: OR-only exhaustive on failure.  In a chain of OR steps whose rules all
\* fail every rule is invoked, in order, and the call returns
\* IsValid = FALSE with all rules' messages concatenated in chain order.
C9_OrOnlyExhaustive ==
    /\ (Returned /\ AllOp(opOr) /\ \A k \in 1..Len(invoked) : ~invoked[k].IsValid)
       => /\ Len(invoked) = Len(steps)
          /\ \A k \in 1..Len(invoked) : invoked[k].idx = k - 1
          /\ res = [IsValid |-> FALSE, Message |-> FailMsgsFrom(invoked, 1)]
    /\ (Returned /\ AllOp(opOr) /\ PureChain
          /\ \A k \in 1..Len(steps) : ~Valid(steps[k].validator))
       => res = [IsValid |-> FALSE, Message |-> RuleMsgs(steps, 1)]

C9_Witness ==
    /\ Returned /\ AllOp(opOr) /\ PureChain /\ Len(steps) = 3
    /\ \A k \in 1..Len(steps) : ~Valid(steps[k].validator)
    /\ Len(res.Message) >= 4

\* C10: a trailing passing OR rescues the chain.  When the last step is
\* tagged OR and its rule passes whenever it is invoked, the call returns
\* IsValid = TRUE with no messages, whatever failed before.
C10_TrailingOrRescues ==
    (/\ Returned /\ steps[Len(steps)].op = opOr
     /\ \/ \A k \in 1..Len(invoked) :
              invoked[k].idx = Len(steps) - 1 => invoked[k].IsValid
        \/ PureChain /\ Valid(steps[Len(steps)].validator))
    => res = Success

\* AND(pass), AND(fail with messages), OR(pass)
C10_Witness ==
    /\ Returned /\ Len(steps) = 3
    /\ steps[1].op = opAnd /\ steps[2].op = opAnd /\ steps[3].op = opOr
    /\ Len(invoked) = 3
    /\ invoked[1].IsValid
    /\ ~invoked[2].IsValid /\ Len(invoked[2].Message) > 0
    /\ invoked[3].IsValid
    /\ res = Success

\* C11: each rule fires at most once, in order.  The step indices of the
\* invocations of one call are strictly increasing (so no step is invoked
\* twice) and are indices of the chain.
C11_AtMostOnceInOrder ==
    /\ \A k \in 1..Len(invoked) : invoked[k].idx \in 0..(Len(steps) - 1)
    /\ \A k, h \in 1..Len(invoked) : k < h => invoked[k].idx < invoked[h].idx

\* a call that invoked steps 0 and 2 and skipped step 1
C11_Witness ==
    /\ Returned /\ Len(steps) = 3 /\ Len(invoked) = 2
    /\ invoked[1].idx = 0 /\ invoked[2].idx = 2

\* C13: Validate leaves the chain unchanged.  No step of a Validate call,
\* from its entry to its return or panic, changes the builder's steps.
C13_ValidateKeepsChain ==
    [][ (pc = "loop" \/ pc' \in {"loop", "returned", "panicked"}) => steps' = steps ]_vars

\* a second call returned, failing, on a chain of three steps
C13_Witness ==
    /\ Returned /\ Len(steps) = 3 /\ calls = 2 /\ ~res.IsValid

\* C15: no thrown errors from the core.  Whatever chain And / Or accepted,
\* a nil rule included, Validate never panics.
C15_NeverPanics == pc # "panicked"

RECURSIVE LastPass(_, _)
\* the position of the last passing invocation among log[1..p], 0 if none
LastPass(log, p) ==
    IF p = 0 THEN 0
    ELSE IF log[p].IsValid THEN p ELSE LastPass(log, p - 1)

RECURSIVE MsgsFrom(_, _)
\* the messages of the invocations log[p..], concatenated in order
MsgsFrom(log, p) ==
    IF p > Len(log) THEN <<>>
    ELSE log[p].Message \o MsgsFrom(log, p + 1)

\* C20: exact content of a failing result.  A failing result holds exactly
\* the messages of the rules invoked after the last invoked rule that
\* passed (all rules invoked, if none passed), in invocation order; all of
\* those rules failed.
C20_FailingResultContent ==
    (Returned /\ ~res.IsValid) =>
       LET p == LastPass(invoked, Len(invoked))
       IN /\ res.Message = MsgsFrom(invoked, p + 1)
          /\ \A k \in (p + 1)..Len(invoked) : ~invoked[k].IsValid
          /\ p < Len(invoked)

\* a rule passed handing back messages, then two rules failed with messages
C20_Witness ==
    /\ Returned /\ ~res.IsValid /\ Len(invoked) = 3
    /\ invoked[1].IsValid /\ Len(invoked[1].Message) > 0
    /\ Len(res.Message) = 3

\* C12: idempotence of evaluation.  All finished calls on one chain of pure
\* rules returned the same IsValid and the same Message list and invoked
\* the same rules.
C12_Idempotent ==
    (Returned /\ PureChain) =>
       \A k, h \in 1..Len(hist) :
          /\ hist[k].res = hist[h].res
          /\ hist[k].invoked = hist[h].invoked

\* two calls on one chain of pure rules, failing with messages after a skip
C12_Witness ==
    /\ Returned /\ PureChain /\ Len(hist) = 2 /\ Len(steps) = 3
    /\ ~res.IsValid /\ Len(res.Message) > 0
    /\ Len(invoked) = 2

C19_NoCaching ==
    /\ (pc = "loop" /\ i = 0) =>
          (accValid = FALSE /\ messages = <<>> /\ invoked = <<>>)
    /\ Returned =>
          /\ \A k \in 1..Len(hist) :
                Cardinality({p \in 1..Len(hist[k].invoked) :
                               hist[k].invoked[p].idx = 0}) = 1
          /\ LET r == Replay(steps, invoked, 0, 1, FALSE, <<>>)
             IN r.ok /\ r.res = res
          /\ \A p \in 1..Len(invoked) :
                \E t \in 0..now :
                   invoked[p] = LogEntry(invoked[p].idx,
                        ValidatorFunc(steps[invoked[p].idx + 1].validator, t))

\* two calls on one chain: the first failed with messages, then the clock
\* moved, and the second passed
C19_Witness ==
    /\ Returned /\ Len(hist) = 2
    /\ ~hist[1].res.IsValid /\ Len(hist[1].res.Message) > 0
    /\ hist[2].res = Success /\ res = Success

\* ------------------------------------------------- concurrent evaluation
\* Two threads call Validate on one chain.  The chain is built first, by one
\* thread, from stateless rules; once a thread has entered Validate nothing
\* is attached any more.  accValid, messages and the loop index are locals
\* of each call (thr[t]); f.steps is shared and only read.
ConcRules == PureRules

AllIdle == \A t \in Threads : thr[t].pc = "idle" /\ thr[t].calls = 0

BuildAnd(v) == AllIdle /\ And(v)

BuildOr(v) == AllIdle /\ Or(v)

seqVars == <<pc, i, accValid, messages, res, invoked, now, calls, attached, hist, arg, out>>

\* thread t calls Validate: the early return of the empty chain, or the
\* fresh locals of a call
CEnter(t) ==
    /\ thr[t].pc \in {"idle", "returned"}
    /\ thr[t].calls < MaxCalls
    /\ thr' = [thr EXCEPT ![t] =
                 IF Len(steps) = 0
                 THEN [pc |-> "returned", i |-> 0, accValid |-> FALSE,
                       messages |-> <<>>, res |-> Success, invoked |-> <<>>,
                       calls |-> @.calls + 1]
                 ELSE [pc |-> "loop", i |-> 0, accValid |-> FALSE,
                       messages |-> <<>>, res |-> @.res, invoked |-> <<>>,
                       calls |-> @.calls + 1]]
    /\ UNCHANGED <<steps, seqVars>>

\* mutant: the accumulator and the message list are shared, thread t reads
\* them where thread t1 left them
CStepShared(t) ==
    /\ thr[t].pc = "loop"
    /\ thr[t].i < Len(steps)
    /\ LET f    == thr[t]
           g    == thr["t1"]
           step == steps[f.i + 1]
           r    == ValidatorFunc(step.validator, now)
           st   == IF f.i = 0 THEN FirstStep(g.accValid, g.messages, r)
                   ELSE IF step.op = opAnd THEN AndStep(g.accValid, g.messages, r)
                   ELSE OrStep(g.accValid, g.messages, r)
       IN thr' = [thr EXCEPT ![t] =
                    IF ~Invokes(f.i, step.op, g.accValid)
                    THEN [f EXCEPT !.i = f.i + 1]
                    ELSE [f EXCEPT !.i = f.i + 1,
                                   !.accValid = st.accValid,
                                   !.messages = st.messages,
                                   !.invoked = Append(f.invoked, LogEntry(f.i, r))]]
    /\ UNCHANGED <<steps, seqVars>>

\* one loop iteration of thread t's call
CStep(t) ==
    /\ thr[t].pc = "loop"
    /\ thr[t].i < Len(steps)
    /\ LET f    == thr[t]
           step == steps[f.i + 1]
           r    == ValidatorFunc(step.validator, now)
           st   == IF f.i = 0 THEN FirstStep(f.accValid, f.messages, r)
                   ELSE IF step.op = opAnd THEN AndStep(f.accValid, f.messages, r)
                   ELSE OrStep(f.accValid, f.messages, r)
       IN thr' = [thr EXCEPT ![t] =
                    IF ~Invokes(f.i, step.op, f.accValid)
                    THEN [f EXCEPT !.i = f.i + 1]
                    ELSE [f EXCEPT !.i = f.i + 1,
                                   !.accValid = st.accValid,
                                   !.messages = st.messages,
                                   !.invoked = Append(f.invoked, LogEntry(f.i, r))]]
    /\ UNCHANGED <<steps, seqVars>>

\* thread t's call returns
CReturn(t) ==
    /\ thr[t].pc = "loop"
    /\ thr[t].i = Len(steps)
    /\ LET f == thr[t]
       IN thr' = [thr EXCEPT ![t] =
                    [f EXCEPT !.pc = "returned",
                              !.res = Result(f.accValid, f.messages),
                              !.i = 0, !.accValid = FALSE, !.messages = <<>>]]
    /\ UNCHANGED <<steps, seqVars>>

NextConc ==
    \/ \E v \in ConcRules : BuildAnd(v)
    \/ \E v \in ConcRules : BuildOr(v)
    \/ \E t \in Threads : CEnter(t)
    \/ \E t \in Threads : CStep(t)
    \/ \E t \in Threads : CReturn(t)

SpecConc == Init /\ [][NextConc]_vars

RECURSIVE Run(_, _, _, _, _)
\* Validate run alone on a chain of pure rules, from step j on: what it
\* returns and which rules it invokes
Run(chain, j, acc, msgs, log) ==
    IF j = Len(chain) THEN Finished(Result(acc, msgs), log)
    ELSE IF ~Invokes(j, chain[j + 1].op, acc)
    THEN Run(chain, j + 1, acc, msgs, log)
    ELSE LET r  == ValidatorFunc(chain[j + 1].validator, 0)
             st == IF j = 0 THEN FirstStep(acc, msgs, r)
                   ELSE IF chain[j + 1].op = opAnd THEN AndStep(acc, msgs, r)
                   ELSE OrStep(acc, msgs, r)
         IN Run(chain, j + 1, st.accValid, st.messages, Append(log, LogEntry(j, r)))

Alone(chain) ==
    IF Len(chain) = 0 THEN Finished(Success, <<>>)
    ELSE Run(chain, 0, FALSE, <<>>, <<>>)

\* C16: concurrent evaluation is safe.  Whatever the interleaving of the
\* threads' calls on a built chain, every call that returned has the result
\* and the invocations of a call run alone.
C16_ConcurrentSafe ==
    \A t \in Threads :
       thr[t].pc = "returned" =>
          Finished(thr[t].res, thr[t].invoked) = Alone(steps)

\* t2 returned a failure with messages after skipping a step, while t1 is
\* in the middle of its own call with the opposite accumulator
C16_Witness ==
    /\ Len(steps) = 3
    /\ thr["t2"].pc = "returned" /\ ~thr["t2"].res.IsValid
    /\ Len(thr["t2"].res.Message) > 0 /\ Len(thr["t2"].invoked) = 2
    /\ thr["t1"].pc = "loop" /\ thr["t1"].i = 1 /\ thr["t1"].accValid

\* ------------------------------------------------------------ the rules
\* A rule constructor is given its arguments (arg) and the rule it built is
\* invoked once (out).
Digits == {"0", "1", "2", "3", "4", "5", "6", "7", "8", "9"}

\* the bytes a string is made of: the digits, the space, and a byte that is
\* neither
Bytes == Digits \cup {" ", "x"}

\* int(ch - '0')
DigitVal(ch) ==
    CASE ch = "0" -> 0 [] ch = "1" -> 1 [] ch = "2" -> 2 [] ch = "3" -> 3
      [] ch = "4" -> 4 [] ch = "5" -> 5 [] ch = "6" -> 6 [] ch = "7" -> 7
      [] ch = "8" -> 8 [] ch = "9" -> 9

DigitChar(d) ==
    CASE d = 0 -> "0" [] d = 1 -> "1" [] d = 2 -> "2" [] d = 3 -> "3"
      [] d = 4 -> "4" [] d = 5 -> "5" [] d = 6 -> "6" [] d = 7 -> "7"
      [] d = 8 -> "8" [] d = 9 -> "9"

RECURSIVE ItoaNat(_)
ItoaNat(n) == IF n < 10 THEN DigitChar(n) ELSE ItoaNat(n \div 10) \o DigitChar(n % 10)

\* strconv.Itoa
Itoa(n) == IF n < 0 THEN "-" \o ItoaNat(-n) ELSE ItoaNat(n)

RECURSIVE LuhnScan(_, _, _, _, _)
\* the loop of LuhnValid: idx is i + 1, the 1-based place of byte s[i]
LuhnScan(s, idx, sum, alt, digits) ==
    IF idx = 0
    THEN IF digits = 0 \/ sum % 10 # 0 THEN Fail(<<"invalid luhn">>) ELSE Success
    ELSE LET ch == s[idx] IN
         IF ch = " " THEN LuhnScan(s, idx - 1, sum, alt, digits)
         ELSE IF ch \notin Digits THEN Fail(<<"must be numeric">>)
         ELSE LET d0 == DigitVal(ch)
                  d1 == IF alt THEN d0 * 2 ELSE d0
                  d  == IF alt /\ d1 > 9 THEN d1 - 9 ELSE d1
              IN LuhnScan(s, idx - 1, sum + d, ~alt, digits + 1)

\* mutant: the doubled digit is never brought back under 10
LuhnValidNoFold(s) ==
    LET RECURSIVE scan(_, _, _, _)
        scan(idx, sum, alt, digits) ==
            IF idx = 0
            THEN IF digits = 0 \/ sum % 10 # 0 THEN Fail(<<"invalid luhn">>) ELSE Success
            ELSE LET ch == s[idx] IN
                 IF ch = " " THEN scan(idx - 1, sum, alt, digits)
                 ELSE IF ch \notin Digits THEN Fail(<<"must be numeric">>)
                 ELSE scan(idx - 1, sum + (IF alt THEN DigitVal(ch) * 2 ELSE DigitVal(ch)),
                           ~alt, digits + 1)
    IN scan(Len(s), 0, FALSE, 0)

LuhnValid(s) == LuhnScan(s, Len(s), 0, FALSE, 0)

\* v % m of Go for m # 0: the remainder of the division truncated towards 0
GoRem(v, m) ==
    LET a == (IF v < 0 THEN -v ELSE v) % (IF m < 0 THEN -m ELSE m)
    IN IF v < 0 THEN -a ELSE a

Returns(r) == [done |-> TRUE, panic |-> FALSE, res |-> r]

\* integer division by zero
Panics == [done |-> TRUE, panic |-> TRUE, res |-> ValidationResult]

\* mutant: no m == 0 test before v % m
IntMultipleOfNoZeroTest(v, m) ==
    IF m = 0 THEN Panics
    ELSE IF GoRem(v, m) # 0
    THEN Returns(Fail(<<"must be a multiple of " \o Itoa(m)>>))
    ELSE Returns(Success)

IntMultipleOf(v, m) ==
    IF m = 0 \/ GoRem(v, m) # 0
    THEN Returns(Fail(<<"must be a multiple of " \o Itoa(m)>>))
    ELSE Returns(Success)

Strings == UNION {[1..n -> Bytes] : n \in 0..MaxStrLen}

InitRules ==
    /\ steps = <<>>
    /\ pc = "ready"
    /\ i = 0
    /\ accValid = FALSE
    /\ messages = <<>>
    /\ res = ValidationResult
    /\ invoked = <<>>
    /\ now = 0
    /\ calls = 0
    /\ attached = <<>>
    /\ hist = <<>>
    /\ thr = [t \in Threads |-> IdleFrame]
    /\ out = NoOut
    /\ \/ \E s \in Strings : arg = [fn |-> "LuhnValid", s |-> s, v |-> 0, m |-> 0]
       \/ \E v, m \in (-MaxInt)..MaxInt :
             arg = [fn |-> "IntMultipleOf", s |-> <<>>, v |-> v, m |-> m]

ruleFrame == <<steps, pc, i, accValid, messages, res, invoked, now, calls,
               attached, hist, thr, arg>>

CallLuhnValid ==
    /\ arg.fn = "LuhnValid"
    /\ ~out.done
    /\ out' = Returns(LuhnValid(arg.s))
    /\ UNCHANGED ruleFrame

CallIntMultipleOf ==
    /\ arg.fn = "IntMultipleOf"
    /\ ~out.done
    /\ out' = IntMultipleOf(arg.v, arg.m)
    /\ UNCHANGED ruleFrame

NextRules ==
    \/ CallLuhnValid
    \/ CallIntMultipleOf

SpecRules == InitRules /\ [][NextRules]_vars

\* the string without its spaces
RECURSIVE Unspaced(_)
Unspaced(s) ==
    IF s = <<>> THEN <<>>
    ELSE (IF Head(s) = " " THEN <<>> ELSE <<Head(s)>>) \o Unspaced(Tail(s))

\* the Luhn term of digit value d at distance k from the right end
LuhnTerm(d, k) ==
    IF k % 2 = 0 THEN d
    ELSE IF 2 * d > 9 THEN 2 * d - 9 ELSE 2 * d

RECURSIVE LuhnSum(_, _)
\* the Luhn sum of the digits ds[1..n] of the digit string ds
LuhnSum(ds, n) ==
    IF n = 0 THEN 0
    ELSE LuhnTerm(DigitVal(ds[n]), Len(ds) - n) + LuhnSum(ds, n - 1)

LuhnWellFormed(s) == \A k \in 1..Len(s) : s[k] \in Digits \cup {" "}

LuhnPasses(s) ==
    /\ LuhnWellFormed(s)
    /\ Unspaced(s) # <<>>
    /\ LuhnSum(Unspaced(s), Len(Unspaced(s))) % 10 = 0

CardOk  == <<"4","5","3","9"," ","1","4","8","8"," ","0","3","4","3"," ","6","4","6","7">>

CardBad == <<"4","5","3","9"," ","1","4","8","8"," ","0","3","4","3"," ","6","4","6","8">>

\* C17: LuhnValid(s) passes iff s is made of digits and spaces only, has a
\* digit, and its Luhn sum is divisible by 10; it fails with "must be
\* numeric" iff s has a byte that is neither digit nor space, and with
\* "invalid luhn" in every other failing case.
C17_LuhnValid ==
    /\ (arg.fn = "LuhnValid" /\ out.done) =>
          /\ ~out.panic
          /\ out.res.IsValid <=> LuhnPasses(arg.s)
          /\ out.res.IsValid => out.res.Message = <<>>
          /\ ~LuhnWellFormed(arg.s) => out.res = Fail(<<"must be numeric">>)
          /\ (LuhnWellFormed(arg.s) /\ ~LuhnPasses(arg.s))
                => out.res = Fail(<<"invalid luhn">>)
    /\ LuhnValid(CardOk) = Success
    /\ LuhnValid(CardBad) = Fail(<<"invalid luhn">>)

\* a passing string with a space in it and a doubled digit above 4
C17_Witness ==
    /\ arg.fn = "LuhnValid" /\ out.done /\ out.res.IsValid
    /\ Len(arg.s) = 3 /\ arg.s[2] = " " /\ arg.s[1] \in {"5", "6", "7", "8", "9"}

\* C18: IntMultipleOf(v, 0) fails with "must be a multiple of 0" for every
\* v, without dividing by zero; for m # 0 IntMultipleOf(v, m) passes iff v
\* is an integer multiple of m, and a failure names m.
C18_IntMultipleOf ==
    (arg.fn = "IntMultipleOf" /\ out.done) =>
       /\ ~out.panic
       /\ arg.m = 0 => out.res = Fail(<<"must be a multiple of 0">>)
       /\ arg.m # 0 =>
             (out.res.IsValid <=> \E k \in (-MaxInt)..MaxInt : arg.v = k * arg.m)
       /\ out.res.IsValid => out.res.Message = <<>>
       /\ (arg.m = -5 /\ arg.v = 3) => out.res = Fail(<<"must be a multiple of -5">>)

\* a non-zero v was tested against the divisor 0
C18_Witness ==
    /\ arg.fn = "IntMultipleOf" /\ out.done
    /\ arg.m = 0 /\ arg.v # 0 /\ ~out.res.IsValid

TypeOK ==
    /\ Len(steps) <= MaxSteps
    /\ \A k \in 1..Len(steps) :
          steps[k].validator \in Validators /\ steps[k].op \in {opAnd, opOr}
    /\ pc \in {"ready", "loop", "returned", "panicked"}
    /\ i \in 0..MaxSteps
    /\ accValid \in BOOLEAN
    /\ res.IsValid \in BOOLEAN
    /\ now \in 0..MaxNow
    /\ calls \in 0..MaxCalls
====
